---- MODULE Spec2Model ----
(***************************************************************************)
(* Model of Main.py: one run of main() of the price synchronisation       *)
(* script.  A run loads three secrets, fetches the eOrder price feed,      *)
(* pages through the Shopify catalog, diffs the two with compare_prices,   *)
(* and, when the "Push Price Updates" button was clicked, posts one        *)
(* productSet mutation per pending update.                                 *)
(*                                                                         *)
(* Prices are fixed-point integers in units of 0.001 currency units, so    *)
(* the tolerance 0.01 of compare_prices is 10 units.  A dict value that    *)
(* may be missing is the string Absent; Python's None for a URL is the     *)
(* empty string (both are falsy for `while next_page_url`).                *)
(***************************************************************************)
EXTENDS Integers, Sequences, FiniteSets, TLC

\* ------------------------------------------------------------------ bounds
MaxFeed == 2          \* longest feed array drawn as an input of compare_prices
MaxVariants == 2      \* most variants, over all products, of a catalog so drawn
MaxPages == 2         \* the catalog server serves at most this many pages
MaxUpdates == 2       \* longest list of updates drawn as an input of the push loop

\* --------------------------------------------------------- program constants
Tolerance == 10       \* 0.01, in units of 0.001
StatusOK == 200

Absent == "<absent>"  \* a key that the dict does not have
SecretKeys == {"SHOPIFY_SHOP", "SHOPIFY_ACCESS_TOKEN", "EORDER_API_URL"}

\* ------------------------------------------------------------ helper values
Last(s) == s[Len(s)]
Front(s) == SubSeq(s, 1, Len(s) - 1)
SeqsUpTo(S, n) == UNION {[1..k -> S] : k \in 0..n}
Abs(x) == IF x < 0 THEN -x ELSE x

\* float(x): a price field is a text that parses to a number (ok) or does
\* not; float raises ValueError on the latter.
Num(v) == [ok |-> TRUE, val |-> v]
BadPrice == [ok |-> FALSE, val |-> 0]
FloatRaises(p) == ~p.ok
Float(p) == p.val

\* f"{new_price:.2f}" then float(): round to a multiple of 0.01 (10 units).
Round2(v) == ((v + 5) \div 10) * 10

\* dict.get(key, default) on a field that holds Absent when the key is missing
Get(field, default) == IF field = Absent THEN default ELSE field

\* ------------------------------------------------------ fetch_eorder_prices
\* A parsed JSON value of the feed: None, an array of {sku, price} objects,
\* or an object (whose iteration yields its keys).
NoneValue == [kind |-> "None", items |-> <<>>]
JsonArray(items) == [kind |-> "array", items |-> items]
JsonObject(keys) == [kind |-> "object", items |-> keys]

\* A feed response: the GET raised (exc), or a status and a body; the body
\* is not JSON (json = FALSE) or the JSON value `value`.
FeedRaised == [exc |-> TRUE, status |-> 0, json |-> FALSE, value |-> NoneValue]
FeedResponse(status, json, value) ==
    [exc |-> FALSE, status |-> status, json |-> json, value |-> value]

\* Lines 8-22: 200 returns response.json(); a body that is not JSON makes
\* json() raise inside the try, hence None; any other status returns None.
fetch_eorder_prices(resp) ==
    IF resp.exc THEN NoneValue
    ELSE IF resp.status = StatusOK
         THEN IF resp.json THEN resp.value ELSE NoneValue
         ELSE NoneValue

\* Mutant of Truthy: only None is false.
Truthy_notNone(v) == v.kind # "None"

\* Python truthiness of a value main tests with `not x`.
Truthy(v) == v.kind # "None" /\ v.items # <<>>

\* ----------------------------------------------------- get_shopify_products
ApiVersion == "2024-01"
FirstPageUrl(shop_url) ==
    "https://" \o shop_url \o "/admin/api/" \o ApiVersion \o "/products.json?limit=250"

\* The Link header, split on ", ": a sequence of links [url, rel]; a response
\* without the header has the empty sequence.  Lines 50-55: every link that
\* contains rel="next" overwrites next_page_url, so the last one wins; with
\* none, next_page_url stays None.
\* Mutant of NextLink: the first link is followed whatever its rel.
NextLink_first(links) == IF links = <<>> THEN "" ELSE links[1].url

RECURSIVE NextLink(_)
NextLink(links) ==
    IF links = <<>> THEN ""
    ELSE IF Last(links).rel = "next" THEN Last(links).url
         ELSE NextLink(Front(links))

\* ------------------------------------------------------------ compare_prices
\* Line 67: the dict comprehension; a later item overwrites an earlier one
\* with the same sku.
\* Mutant of eorder_price_map: the first entry of a sku is kept.
eorder_price_map_first(items) ==
    [s \in {items[i].sku : i \in DOMAIN items} |->
        Float(items[CHOOSE i \in DOMAIN items :
                       items[i].sku = s /\ \A j \in 1..(i - 1) : items[j].sku # s].price)]

RECURSIVE eorder_price_map(_)
eorder_price_map(items) ==
    IF items = <<>> THEN <<>>
    ELSE LET d == eorder_price_map(Front(items))
             item == Last(items)
         IN  [s \in DOMAIN d \cup {item.sku} |->
                 IF s = item.sku THEN Float(item.price) ELSE d[s]]

\* Line 67 raises when the feed is an object (item['sku'] on a str key) or
\* when some price does not parse.
MapRaises(eorder_prices) ==
    \/ eorder_prices.kind = "object" /\ eorder_prices.items # <<>>
    \/ /\ eorder_prices.kind = "array"
       /\ \E i \in DOMAIN eorder_prices.items : FloatRaises(eorder_prices.items[i].price)

\* Line 71: sku = variant.get('sku', '')
VariantSku(variant) == Get(variant.sku, "")

\* Line 72: sku in eorder_price_map
Matches(variant, map) == VariantSku(variant) \in DOMAIN map

\* Mutant of Differs: a difference of exactly the tolerance triggers too.
Differs_ge(current_price, new_price) == Abs(current_price - new_price) >= Tolerance

\* Line 79: the trigger of an update.
Differs(current_price, new_price) == Abs(current_price - new_price) > Tolerance

\* Mutant of PriceUpdate: the two prices change places.
PriceUpdate_swapped(product, variant, map) ==
    [product_id |-> product.id, variant_id |-> variant.id,
     product_title |-> product.title, variant_title |-> variant.title,
     current_price |-> map[VariantSku(variant)],
     new_price |-> Float(variant.price),
     sku |-> VariantSku(variant),
     option1 |-> Get(variant.option1, ""), option2 |-> Get(variant.option2, ""),
     option3 |-> Get(variant.option3, "")]

\* Lines 80-91: the record appended for a variant.
PriceUpdate(product, variant, map) ==
    [product_id |-> product.id, variant_id |-> variant.id,
     product_title |-> product.title, variant_title |-> variant.title,
     current_price |-> Float(variant.price),
     new_price |-> map[VariantSku(variant)],
     sku |-> VariantSku(variant),
     option1 |-> Get(variant.option1, ""), option2 |-> Get(variant.option2, ""),
     option3 |-> Get(variant.option3, "")]

\* Lines 70-91 for one product: the updates of its variants, in order.
RECURSIVE VariantUpdates(_, _, _)
VariantUpdates(product, variants, map) ==
    IF variants = <<>> THEN <<>>
    ELSE LET rest == VariantUpdates(product, Front(variants), map)
             variant == Last(variants)
         IN  IF Matches(variant, map) /\ Differs(Float(variant.price), map[VariantSku(variant)])
             THEN Append(rest, PriceUpdate(product, variant, map))
             ELSE rest

\* Mutant of ProductUpdates: the products are walked from the last.
RECURSIVE ProductUpdates_reversed(_, _)
ProductUpdates_reversed(products, map) ==
    IF products = <<>> THEN <<>>
    ELSE VariantUpdates(Last(products), Last(products).variants, map)
             \o ProductUpdates_reversed(Front(products), map)

\* Lines 69-92: the updates of all products, in order.
RECURSIVE ProductUpdates(_, _)
ProductUpdates(products, map) ==
    IF products = <<>> THEN <<>>
    ELSE ProductUpdates(Front(products), map)
             \o VariantUpdates(Last(products), Last(products).variants, map)

\* Line 73 raises for a matched variant whose price does not parse.
LoopRaises(products, map) ==
    \E i \in DOMAIN products : \E j \in DOMAIN products[i].variants :
        /\ Matches(products[i].variants[j], map)
        /\ FloatRaises(products[i].variants[j].price)

\* compare_prices: its returned list, or the exception it ends with.
compare_prices(eorder_prices, shopify_products) ==
    IF MapRaises(eorder_prices) THEN [raised |-> TRUE, value |-> <<>>]
    ELSE LET map == eorder_price_map(eorder_prices.items)
         IN  IF LoopRaises(shopify_products, map)
             THEN [raised |-> TRUE, value |-> <<>>]
             ELSE [raised |-> FALSE, value |-> ProductUpdates(shopify_products, map)]

\* ------------------------------------------------------ update_shopify_price
\* A response to the productSet mutation: the POST raised (exc), or a status
\* and a body.  A JSON body may hold a top-level "errors" key, and "data",
\* "data.productSet", "data.productSet.userErrors" are each absent, null or
\* present (userErrors: an empty or a non-empty list).
UpdateRaised ==
    [exc |-> TRUE, status |-> 0, json |-> FALSE, errors |-> FALSE,
     data |-> "absent", productSet |-> "absent", userErrors |-> "absent"]
UpdateResponse(status, json, errors, data, productSet, userErrors) ==
    [exc |-> FALSE, status |-> status, json |-> json, errors |-> errors,
     data |-> data, productSet |-> productSet, userErrors |-> userErrors]

\* Line 186: response_data.get('data', {}).get('productSet', {}).get('userErrors')
\* raises AttributeError when data or productSet is null (None has no get).
UserErrorsRaises(resp) == resp.data = "null" \/ (resp.data = "object" /\ resp.productSet = "null")
\* Mutant of UserErrorsTruthy: userErrors is never looked at.
UserErrorsTruthy_never(resp) == FALSE

UserErrorsTruthy(resp) ==
    resp.data = "object" /\ resp.productSet = "object" /\ resp.userErrors = "nonempty"

\* What update_shopify_price returns: (success, response).  The second part
\* is the whole body (response_data), the userErrors list (user_errors),
\* response.text (text) or str(e) (exception), of the response `of`.
Result(success, kind, resp) == [success |-> success, reason |-> [kind |-> kind, of |-> resp]]

\* Lines 174-203.
update_shopify_price(resp) ==
    IF resp.exc THEN Result(FALSE, "exception", resp)
    ELSE IF resp.status = StatusOK
         THEN IF ~resp.json THEN Result(FALSE, "exception", resp)
              ELSE IF resp.errors THEN Result(FALSE, "response_data", resp)
              ELSE IF UserErrorsRaises(resp) THEN Result(FALSE, "exception", resp)
              ELSE IF UserErrorsTruthy(resp) THEN Result(FALSE, "user_errors", resp)
              ELSE Result(TRUE, "response_data", resp)
         ELSE Result(FALSE, "text", resp)

\* Lines 102-105, 162-178: the POST that update_shopify_price sends.
UpdateRequest(shop_url, update) ==
    [method |-> "POST",
     url |-> "https://" \o shop_url \o "/admin/api/" \o ApiVersion \o "/graphql.json",
     variables |-> <<[id |-> "gid://shopify/Product/" \o ToString(update.product_id),
                      variant |-> "gid://shopify/ProductVariant/" \o ToString(update.variant_id),
                      price |-> Round2(update.new_price)]>>]

GetRequest(url) == [method |-> "GET", url |-> url, variables |-> <<>>]

\* =================================================================== inputs
\* Catalog records.  A variant's sku is a string or Absent (no "sku" key).
Variant(id, sku, price) ==
    [id |-> id, title |-> "Default Title", sku |-> sku, price |-> price,
     option1 |-> "Default Title", option2 |-> Absent, option3 |-> Absent]
Product(id, variants) == [id |-> id, title |-> "Product", variants |-> variants]
Entry(sku, price) == [sku |-> sku, price |-> price]

\* Feed prices and catalog prices: their differences are 0, 1, 10 and 11
\* units, the two sides of the tolerance.
FeedPrices == {Num(95000), Num(95011)}
CatalogPrices == {Num(95000), Num(95010)}

\* The secrets a deployment may hold: each key present or missing, the shop
\* host bare or with a protocol prefix.
ShopHosts == {"shop.myshopify.com", "https://shop.myshopify.com"}
SecretsSet ==
    {[k \in SecretKeys |-> IF k = "SHOPIFY_SHOP" THEN shop
                           ELSE IF k = "SHOPIFY_ACCESS_TOKEN" THEN token ELSE url] :
        shop \in ShopHosts \cup {Absent}, token \in {"shpat_1", Absent},
        url \in {"https://eorder.example/prices", Absent}}

\* Feed bodies of a run of main.
MainFeeds ==
    {<<Entry("A", Num(95011))>>,
     <<Entry("A", Num(95000)), Entry("", Num(95011))>>}
MainFeedResponses ==
    {FeedRaised,
     FeedResponse(404, FALSE, NoneValue),
     FeedResponse(404, TRUE, JsonObject(<<"error">>)),
     FeedResponse(StatusOK, FALSE, NoneValue),
     FeedResponse(StatusOK, TRUE, NoneValue),
     FeedResponse(StatusOK, TRUE, JsonObject(<<>>)),
     FeedResponse(StatusOK, TRUE, JsonObject(<<"error">>)),
     FeedResponse(StatusOK, TRUE, JsonArray(<<>>))}
      \cup {FeedResponse(StatusOK, TRUE, JsonArray(f)) : f \in MainFeeds}

\* Catalog pages.  Page k of the server holds products whose ids derive
\* from k; its Link header names the previous and the next page.
PageUrl(k) == "https://shop.myshopify.com/admin/api/2024-01/products.json?page_info=" \o ToString(k)
PageRaised == [exc |-> TRUE, status |-> 0, has_products |-> FALSE, products |-> <<>>, links |-> <<>>]
PageResponse(status, has_products, products, links) ==
    [exc |-> FALSE, status |-> status, has_products |-> has_products,
     products |-> products, links |-> links]
ProductX(k) == Product(10 * k + 1, <<Variant(100 * k + 11, "A", Num(95000))>>)
ProductY(k) ==
    Product(10 * k + 2, <<Variant(100 * k + 21, "A", Num(95010)),
                          Variant(100 * k + 22, Absent, Num(95000))>>)
PageBodies(k) == {<<>>, <<ProductX(k)>>, <<ProductX(k), ProductY(k)>>}
PrevLink(k) == [url |-> PageUrl(k - 1), rel |-> "previous"]
NextLinkTo(k) == [url |-> PageUrl(k + 1), rel |-> "next"]
PageLinks(k) ==
    {<<>>, <<PrevLink(k)>>, <<NextLinkTo(k)>>, <<PrevLink(k), NextLinkTo(k)>>,
     <<NextLinkTo(k), PrevLink(k)>>}
PageResponses(k) ==
    {PageRaised, PageResponse(500, FALSE, <<>>, <<>>)}
      \cup {PageResponse(StatusOK, FALSE, <<>>, l) : l \in PageLinks(k)}
      \cup {PageResponse(StatusOK, TRUE, b, l) : b \in PageBodies(k), l \in PageLinks(k)}

\* Whether a page response ends the loop of get_shopify_products.
PageFails(resp) == resp.exc \/ resp.status # StatusOK \/ ~resp.has_products

\* Responses to a mutation.
JsonBodies ==
    {UpdateResponse(StatusOK, TRUE, e, "absent", "absent", "absent") : e \in BOOLEAN}
      \cup {UpdateResponse(StatusOK, TRUE, e, "null", "absent", "absent") : e \in BOOLEAN}
      \cup {UpdateResponse(StatusOK, TRUE, e, "object", ps, "absent") :
               e \in BOOLEAN, ps \in {"absent", "null"}}
      \cup {UpdateResponse(StatusOK, TRUE, e, "object", "object", ue) :
               e \in BOOLEAN, ue \in {"absent", "null", "empty", "nonempty"}}
UpdateResponses ==
    {UpdateRaised,
     UpdateResponse(500, FALSE, FALSE, "absent", "absent", "absent"),
     UpdateResponse(StatusOK, FALSE, FALSE, "absent", "absent", "absent")}
      \cup JsonBodies
MainUpdateResponses ==
    {UpdateRaised,
     UpdateResponse(500, FALSE, FALSE, "absent", "absent", "absent"),
     UpdateResponse(StatusOK, TRUE, TRUE, "absent", "absent", "absent"),
     UpdateResponse(StatusOK, TRUE, FALSE, "object", "object", "nonempty"),
     UpdateResponse(StatusOK, TRUE, FALSE, "object", "object", "empty")}

\* ==================================================================== state
VARIABLES
    pc,               \* where main() is: see the actions
    secrets,          \* st.secrets
    feed_response,    \* fetch_eorder_prices: the response of its GET
    requests,         \* every HTTP request issued so far, in order
    served,           \* the catalog page responses received so far, in order
    shown,            \* the messages written with st.error/st.success/st.write
    eorder_prices,    \* main: the feed, as fetch_eorder_prices returned it
    all_products,     \* get_shopify_products: the accumulator
    next_page_url,    \* get_shopify_products: the next URL ("" is None)
    shopify_products, \* main: what get_shopify_products returned
    price_updates,    \* main: what compare_prices returned
    clicked,          \* the button whose click started this run, or "none"
    idx,              \* push loop: index of the update in hand (0 before)
    result,           \* push loop: (success, response) of the last call
    state,            \* per update: Pending, Sent, Succeeded or Failed
    success_updates, failed_updates, error_log,
    progress,         \* progress_bar: <<>> when absent or emptied, else <<num, den>>
    status_text       \* status_text: its last text

vars == <<pc, secrets, feed_response, requests, served, shown, eorder_prices, all_products,
          next_page_url, shopify_products, price_updates, clicked, idx, result,
          state, success_updates, failed_updates, error_log, progress, status_text>>

fetchVars == <<served, all_products, next_page_url>>
pushVars == <<idx, result, state, success_updates, failed_updates, error_log, progress, status_text>>

Show(msgs) == shown' = shown \o msgs
NoText == [kind |-> "none", idx |-> 0, total |-> 0, sku |-> ""]
NoFeedResponse == FeedResponse(0, FALSE, NoneValue)
NoResult == Result(FALSE, "none", UpdateRaised)

Init ==
    /\ pc = "main"
    /\ secrets \in SecretsSet
    /\ feed_response = NoFeedResponse /\ result = NoResult
    /\ requests = <<>> /\ served = <<>> /\ shown = <<>>
    /\ eorder_prices = NoneValue
    /\ all_products = <<>> /\ next_page_url = ""
    /\ shopify_products = <<>> /\ price_updates = <<>>
    /\ clicked = "none" /\ idx = 0 /\ state = <<>>
    /\ success_updates = <<>> /\ failed_updates = <<>> /\ error_log = <<>>
    /\ progress = <<>> /\ status_text = NoText

\* ---------------------------------------------------------------- main 209-216
\* st.secrets[...] raises KeyError for a missing key: error, return.
LoadSecrets ==
    /\ pc = "main"
    /\ IF \E k \in SecretKeys : secrets[k] = Absent
       THEN /\ Show(<<"Missing secret">>)
            /\ pc' = "returned"
       ELSE /\ pc' = "fetch_eorder_prices"
            /\ UNCHANGED shown
    /\ UNCHANGED <<secrets, feed_response, requests, eorder_prices, shopify_products,
                   price_updates, clicked, fetchVars, pushVars>>

\* ------------------------------------------- main 218-228, fetch_eorder_prices
\* The messages fetch_eorder_prices writes for a response.
FeedMessages(resp) ==
    IF resp.exc THEN <<"An error occurred while fetching eOrder prices">>
    ELSE IF resp.status # StatusOK THEN <<"Failed to fetch data from eOrder">>
    ELSE IF ~resp.json THEN <<"An error occurred while fetching eOrder prices">>
    ELSE <<>>

FetchFeed(resp) ==
    /\ pc = "fetch_eorder_prices"
    /\ requests' = Append(requests, GetRequest(secrets["EORDER_API_URL"]))
    /\ feed_response' = resp
    /\ eorder_prices' = fetch_eorder_prices(resp)
    /\ IF ~Truthy(eorder_prices')
       THEN /\ Show(FeedMessages(resp) \o <<"Could not fetch prices from eOrder API.">>)
            /\ pc' = "returned"
            /\ UNCHANGED <<all_products, next_page_url>>
       ELSE /\ Show(FeedMessages(resp))
            /\ pc' = "get_shopify_products"
            /\ all_products' = <<>>
            /\ next_page_url' = FirstPageUrl(secrets["SHOPIFY_SHOP"])
    /\ UNCHANGED <<secrets, served, shopify_products, price_updates, clicked, pushVars>>

\* ------------------------------------------------ get_shopify_products 28-59
\* One iteration of the while loop: the GET of next_page_url and its
\* response.  A failure breaks out of the loop with what was accumulated.
PageMessages(resp) ==
    IF resp.exc THEN <<"Error fetching Shopify products">>
    ELSE IF resp.status # StatusOK THEN <<"Failed to fetch products">>
    ELSE IF ~resp.has_products THEN <<"Error fetching Shopify products">>
    ELSE <<>>

CatalogPage(resp) ==
    /\ pc = "get_shopify_products"
    /\ next_page_url # ""
    /\ requests' = Append(requests, GetRequest(next_page_url))
    /\ served' = Append(served, resp)
    /\ Show(PageMessages(resp))
    /\ IF PageFails(resp)
       THEN /\ UNCHANGED <<all_products, next_page_url>>
            /\ pc' = "get_shopify_products_return"
       ELSE /\ all_products' = all_products \o resp.products
            /\ next_page_url' = NextLink(resp.links)
            /\ pc' = IF next_page_url' = "" THEN "get_shopify_products_return"
                     ELSE "get_shopify_products"
    /\ UNCHANGED <<secrets, feed_response, eorder_prices, shopify_products, price_updates,
                   clicked, pushVars>>

\* ---------------------------------------------------------------- main 228-232
CatalogReturn ==
    /\ pc = "get_shopify_products_return"
    /\ shopify_products' = all_products
    /\ IF shopify_products' = <<>>
       THEN /\ Show(<<"Could not fetch Shopify products.">>)
            /\ pc' = "returned"
       ELSE /\ UNCHANGED shown
            /\ pc' = "compare_prices"
    /\ UNCHANGED <<secrets, feed_response, requests, eorder_prices, price_updates, clicked,
                   fetchVars, pushVars>>

\* ---------------------------------------------------------------- main 235-248
\* compare_prices and the display of its result; an exception of
\* compare_prices is not caught and ends the run.
Compare ==
    /\ pc = "compare_prices"
    /\ LET r == compare_prices(eorder_prices, shopify_products)
       IN  IF r.raised
           THEN /\ pc' = "raised"
                /\ UNCHANGED <<shown, price_updates, state, error_log>>
           ELSE /\ price_updates' = r.value
                /\ state' = [i \in DOMAIN r.value |-> "Pending"]
                /\ error_log' = <<>>
                /\ IF r.value = <<>>
                   THEN Show(<<"No price updates needed!">>) /\ pc' = "returned"
                   ELSE Show(<<"Potential Price Updates">>) /\ pc' = "buttons"
    /\ UNCHANGED <<secrets, feed_response, requests, eorder_prices, shopify_products,
                   clicked, fetchVars, idx, result, success_updates, failed_updates,
                   progress, status_text>>

\* ---------------------------------------------------------------- main 250-261
\* The two buttons.  A run is started by at most one click: `click` is the
\* button that st.button reports as pressed in this run.
SimulateLines == [i \in DOMAIN price_updates |-> "Would update SKU " \o price_updates[i].sku]

Buttons(click) ==
    /\ pc = "buttons"
    /\ clicked' = click
    /\ IF click = "push"
       THEN /\ pc' = "push_loop"
            /\ progress' = <<0, 1>>
            /\ status_text' = NoText
            /\ success_updates' = <<>> /\ failed_updates' = <<>>
            /\ idx' = 0
            /\ UNCHANGED shown
       ELSE /\ pc' = "returned"
            /\ IF click = "simulate" THEN Show(SimulateLines) ELSE UNCHANGED shown
            /\ UNCHANGED <<progress, status_text, success_updates, failed_updates, idx>>
    /\ UNCHANGED <<secrets, feed_response, requests, eorder_prices, shopify_products,
                   price_updates, fetchVars, result, state, error_log>>

\* ------------------------------------- main 264-276, update_shopify_price 175
\* Mutant of UpdateAt: the list is walked from its end.
UpdateAt_reversed(k) == price_updates[Len(price_updates) - k + 1]

\* Line 264: the update that enumerate(price_updates, start=1) yields as
\* number k.
UpdateAt(k) == price_updates[k]

\* The head of one iteration: the status line, then the POST.
SendUpdate ==
    /\ pc = "push_loop"
    /\ idx < Len(price_updates)
    /\ idx' = idx + 1
    /\ status_text' = [kind |-> "updating", idx |-> idx', total |-> Len(price_updates),
                       sku |-> UpdateAt(idx').sku]
    /\ requests' = Append(requests, UpdateRequest(secrets["SHOPIFY_SHOP"], UpdateAt(idx')))
    /\ state' = [state EXCEPT ![idx'] = "Sent"]
    /\ pc' = "update_shopify_price"
    /\ UNCHANGED <<secrets, feed_response, served, shown, eorder_prices, all_products,
                   next_page_url, shopify_products, price_updates, clicked, result,
                   success_updates, failed_updates, error_log, progress>>

\* ------------------------------------ update_shopify_price 180-203, main 278-291
\* The response of the POST, its classification and the bookkeeping.
UpdateMessage(r) ==
    IF r.success THEN "Successfully updated Variant"
    ELSE IF r.reason.kind = "response_data" THEN "GraphQL errors occurred"
    ELSE IF r.reason.kind = "user_errors" THEN "User errors"
    ELSE IF r.reason.kind = "text" THEN "Failed to update Variant"
    ELSE "Exception occurred while updating Variant"

\* Mutant of AfterOutcome: a failed update ends the loop and the run.
AfterOutcome_halts(r) == IF r.success THEN "push_loop" ELSE "returned"

\* Lines 278-291: neither branch leaves the loop; the next iteration follows
\* whatever the outcome.
AfterOutcome(r) == "push_loop"

Failure(update, reason) == [sku |-> update.sku, variant_id |-> update.variant_id, error |-> reason]

\* Mutant of ErrorDetails: the line names the product id for the variant id.
ErrorDetails_product(update, reason) ==
    "SKU: " \o update.sku \o ", Variant ID: " \o ToString(update.product_id)
        \o ", Error: " \o ToString(reason)

\* Line 287: the line of the error log.
ErrorDetails(update, reason) ==
    "SKU: " \o update.sku \o ", Variant ID: " \o ToString(update.variant_id)
        \o ", Error: " \o ToString(reason)

\* Mutant of Fraction: the index counts from zero.
Fraction_zero_based(k, n) == <<k - 1, n>>

\* Line 290: idx / total_updates, as <<numerator, denominator>>.
Fraction(k, n) == <<k, n>>

RecvUpdate(resp) ==
    /\ pc = "update_shopify_price"
    /\ result' = update_shopify_price(resp)
    /\ LET update == UpdateAt(idx)
       IN  /\ Show(<<UpdateMessage(result')>>)
           /\ IF result'.success
              THEN /\ success_updates' = Append(success_updates, update)
                   /\ UNCHANGED <<failed_updates, error_log>>
              ELSE /\ failed_updates' = Append(failed_updates, Failure(update, result'.reason))
                   /\ error_log' = Append(error_log, ErrorDetails(update, result'.reason))
                   /\ UNCHANGED success_updates
           /\ state' = [state EXCEPT ![idx] = IF result'.success THEN "Succeeded" ELSE "Failed"]
    /\ progress' = Fraction(idx, Len(price_updates))
    /\ pc' = AfterOutcome(result')
    /\ UNCHANGED <<secrets, feed_response, requests, served, eorder_prices, all_products,
                   next_page_url, shopify_products, price_updates, clicked, idx, status_text>>

\* ---------------------------------------------------------------- main 293-320
\* After the loop: the tally, the error log download, the widgets emptied;
\* the Simulate button was not the one clicked.
Tally ==
    (IF success_updates # <<>> THEN <<"Successfully updated variants">> ELSE <<>>)
      \o (IF failed_updates # <<>> THEN <<"Failed to update variants", "Download Error Log">>
          ELSE <<>>)

FinishPush ==
    /\ pc = "push_loop"
    /\ idx = Len(price_updates)
    /\ Show(Tally)
    /\ progress' = <<>>
    /\ status_text' = [kind |-> "empty", idx |-> 0, total |-> 0, sku |-> ""]
    /\ pc' = "returned"
    /\ UNCHANGED <<secrets, feed_response, requests, served, eorder_prices, all_products,
                   next_page_url, shopify_products, price_updates, clicked, idx, result,
                   state, success_updates, failed_updates, error_log>>

\* ------------------------------------------------------------ specifications
\* The catalog is finite: page MaxPages, if reached, declares no next page.
ServerPages(k) ==
    {r \in PageResponses(k) :
        k < MaxPages \/ PageFails(r) \/ \A i \in DOMAIN r.links : r.links[i].rel # "next"}

Next ==
    \/ LoadSecrets
    \/ \E resp \in MainFeedResponses : FetchFeed(resp)
    \/ \E resp \in ServerPages(Len(served) + 1) : CatalogPage(resp)
    \/ CatalogReturn
    \/ Compare
    \/ \E click \in {"none", "push", "simulate"} : Buttons(click)
    \/ SendUpdate
    \/ \E resp \in MainUpdateResponses : RecvUpdate(resp)
    \/ FinishPush

Spec == Init /\ [][Next]_vars

\* ------------------------------------------- compare_prices on drawn inputs
\* Feeds: arrays of 1..MaxFeed entries.  Catalogs: 1..MaxVariants variants,
\* cut into products of at least one variant each (a Shopify product always
\* has a variant); ids follow the position.
CompareFeeds ==
    SeqsUpTo({Entry(sku, price) : sku \in {"", "A"}, price \in FeedPrices}, MaxFeed) \ {<<>>}
VariantChoices ==
    {[sku |-> sku, price |-> price] :
        sku \in {Absent, "", "A", " A"}, price \in CatalogPrices \cup {BadPrice}}
GroupOf(cuts, j) == 1 + Cardinality({c \in cuts : c < j})
CatalogOf(vs, cuts) ==
    [i \in 1..(Cardinality(cuts) + 1) |->
        LET js == {j \in DOMAIN vs : GroupOf(cuts, j) = i}
            lo == CHOOSE j \in js : \A h \in js : j <= h
            hi == CHOOSE j \in js : \A h \in js : j >= h
        IN  Product(i, [j \in 1..(hi - lo + 1) |->
                           Variant(100 + lo + j - 1, vs[lo + j - 1].sku, vs[lo + j - 1].price)])]
CompareCatalogs ==
    UNION {{CatalogOf(vs, cuts) : cuts \in SUBSET (1..(Len(vs) - 1))} :
              vs \in SeqsUpTo(VariantChoices, MaxVariants) \ {<<>>}}

\* The state of main() when it calls compare_prices, after a 200 feed and a
\* catalog served as one page.
FullSecrets ==
    [k \in SecretKeys |-> IF k = "SHOPIFY_SHOP" THEN "shop.myshopify.com"
                          ELSE IF k = "SHOPIFY_ACCESS_TOKEN" THEN "shpat_1"
                          ELSE "https://eorder.example/prices"]

AtCompare(feed, catalog) ==
    /\ pc = "compare_prices"
    /\ secrets = FullSecrets
    /\ feed_response = FeedResponse(StatusOK, TRUE, JsonArray(feed)) /\ result = NoResult
    /\ requests = <<GetRequest(FullSecrets["EORDER_API_URL"]),
                    GetRequest(FirstPageUrl(FullSecrets["SHOPIFY_SHOP"]))>>
    /\ served = <<PageResponse(StatusOK, TRUE, catalog, <<>>)>>
    /\ shown = <<>>
    /\ eorder_prices = JsonArray(feed)
    /\ all_products = catalog /\ next_page_url = ""
    /\ shopify_products = catalog /\ price_updates = <<>>
    /\ clicked = "none" /\ idx = 0 /\ state = <<>>
    /\ success_updates = <<>> /\ failed_updates = <<>> /\ error_log = <<>>
    /\ progress = <<>> /\ status_text = NoText

InitCompare == \E feed \in CompareFeeds : \E catalog \in CompareCatalogs : AtCompare(feed, catalog)

NextCompare == Compare

SpecCompare == InitCompare /\ [][NextCompare]_vars

\* -------------------------------------------------- the push loop on drawn inputs
\* The state of main() when the push loop starts: the list compare_prices
\* returns for a feed of one entry and a catalog of 1..MaxUpdates products
\* that all differ from it.
PushCatalog(n) == [k \in 1..n |-> ProductX(k)]
PushFeed == <<Entry("A", Num(95011))>>

AtPush(catalog) ==
    /\ pc = "push_loop"
    /\ secrets = FullSecrets
    /\ feed_response = FeedResponse(StatusOK, TRUE, JsonArray(PushFeed)) /\ result = NoResult
    /\ requests = <<GetRequest(FullSecrets["EORDER_API_URL"]),
                    GetRequest(FirstPageUrl(FullSecrets["SHOPIFY_SHOP"]))>>
    /\ served = <<PageResponse(StatusOK, TRUE, catalog, <<>>)>>
    /\ shown = <<"Potential Price Updates">>
    /\ eorder_prices = JsonArray(PushFeed)
    /\ all_products = catalog /\ next_page_url = ""
    /\ shopify_products = catalog
    /\ price_updates = compare_prices(JsonArray(PushFeed), catalog).value
    /\ clicked = "push" /\ idx = 0
    /\ state = [i \in DOMAIN price_updates |-> "Pending"]
    /\ success_updates = <<>> /\ failed_updates = <<>> /\ error_log = <<>>
    /\ progress = <<0, 1>> /\ status_text = NoText

InitPush == \E n \in 1..MaxUpdates : AtPush(PushCatalog(n))

NextPush ==
    \/ SendUpdate
    \/ \E resp \in UpdateResponses : RecvUpdate(resp)
    \/ FinishPush

SpecPush == InitPush /\ [][NextPush]_vars

\* =================================================================== claims
IsPost(r) == r.method = "POST"
IsGet(r) == r.method = "GET"
Posts == SelectSeq(requests, IsPost)
Gets == SelectSeq(requests, IsGet)
Final == {"Succeeded", "Failed"}
PushEnded == clicked = "push" /\ pc = "returned"
CompareCalled ==
    \/ pc = "raised"
    \/ \E i \in DOMAIN shown : shown[i] \in {"No price updates needed!", "Potential Price Updates"}

\* C1: once the push loop has started every update is attempted whatever the
\* outcomes of the earlier ones: the loop is never stuck and is left only at
\* its end, where all N updates were sent, each has an outcome, and
\* len(success_updates) + len(failed_updates) = N.
C1_ExecutorIsolation ==
    /\ (pc = "push_loop" /\ idx < Len(price_updates)) => ENABLED SendUpdate
    /\ pc = "update_shopify_price" => \A resp \in MainUpdateResponses : ENABLED RecvUpdate(resp)
    /\ clicked = "push" => pc \in {"push_loop", "update_shopify_price", "returned"}
    /\ PushEnded =>
          /\ Len(Posts) = Len(price_updates)
          /\ \A i \in DOMAIN price_updates : state[i] \in Final
          /\ Len(success_updates) + Len(failed_updates) = Len(price_updates)

\* A push of at least two updates has ended, the first of them failed and
\* the second succeeded.
C1_Witness ==
    /\ PushEnded
    /\ Len(price_updates) >= 2
    /\ state[1] = "Failed" /\ state[2] = "Succeeded"

\* C2 (as claimed): if a catalog page request answered with a status other
\* than 200, or raised, then compare_prices is never called and no update
\* mutation is sent.
PageRequestFailed(resp) == resp.exc \/ resp.status # StatusOK
C2_NoIncompleteCatalog ==
    (\E i \in DOMAIN served : PageRequestFailed(served[i])) =>
        /\ pc # "compare_prices" /\ ~CompareCalled
        /\ Posts = <<>>

\* C3: when every page served answered 200 with a products list, and every
\* page but the last declared a next link, get_shopify_products has stopped,
\* it issued one request per page, the first to the first-page URL and each
\* later one to the next link of the page before, and its result is the
\* concatenation of the pages' products in page order.
DeclaresNext(resp) == \E i \in DOMAIN resp.links : resp.links[i].rel = "next"
DeclaredNext(resp) ==
    resp.links[CHOOSE i \in DOMAIN resp.links : resp.links[i].rel = "next"].url
RECURSIVE ProductsOf(_)
ProductsOf(pages) ==
    IF pages = <<>> THEN <<>> ELSE ProductsOf(Front(pages)) \o Last(pages).products
CompletePagination ==
    /\ served # <<>>
    /\ \A i \in DOMAIN served : ~PageRequestFailed(served[i]) /\ served[i].has_products
    /\ \A i \in DOMAIN served : DeclaresNext(served[i]) <=> i < Len(served)
C3_PaginationComplete ==
    CompletePagination =>
        /\ pc # "get_shopify_products"
        /\ Len(Gets) = 1 + Len(served)
        /\ Gets[2].url = FirstPageUrl(secrets["SHOPIFY_SHOP"])
        /\ \A i \in 1..(Len(served) - 1) : Gets[i + 2].url = DeclaredNext(served[i])
        /\ all_products = ProductsOf(served)
        /\ pc # "get_shopify_products_return" => shopify_products = ProductsOf(served)

\* get_shopify_products returns after two pages with products, the first
\* with a Link header that names the previous and the next page.
C3_Witness ==
    /\ pc = "get_shopify_products_return"
    /\ CompletePagination
    /\ Len(served) = 2
    /\ Len(served[1].links) = 2
    /\ served[1].products # <<>> /\ served[2].products # <<>>

\* The catalog variants, the feed SKUs and the feed price of a SKU (of its
\* last entry), read from the inputs of compare_prices.
CatalogVariants ==
    UNION {{shopify_products[i].variants[j] : j \in DOMAIN shopify_products[i].variants} :
              i \in DOMAIN shopify_products}
FeedItems == eorder_prices.items
FeedSkus == {FeedItems[i].sku : i \in DOMAIN FeedItems}
FeedPrice(sku) ==
    LET last == CHOOSE i \in DOMAIN FeedItems :
                    FeedItems[i].sku = sku /\ \A j \in DOMAIN FeedItems : j > i => FeedItems[j].sku # sku
    IN  FeedItems[last].price.val
UpdatesFor(v) == {i \in DOMAIN price_updates : price_updates[i].variant_id = v.id}
Compared == pc \in {"buttons", "returned"}

\* C4: when compare_prices returns, a variant whose SKU is a feed SKU has
\* exactly one update if its price differs from the feed price by more than
\* 0.01 (10 units), and none otherwise; a difference of exactly 0.01 gives none.
C4_ToleranceTrigger ==
    Compared =>
        \A v \in CatalogVariants :
            v.sku \in FeedSkus =>
                Cardinality(UpdatesFor(v)) =
                    IF Abs(v.price.val - FeedPrice(v.sku)) > 10 THEN 1 ELSE 0

\* compare_prices returned for a catalog with a variant exactly 0.01 from
\* its feed price, without an update, and one 0.011 from it, with an update.
C4_Witness ==
    /\ pc = "buttons"
    /\ \E v, w \in CatalogVariants :
          /\ v.sku \in FeedSkus /\ Abs(v.price.val - FeedPrice(v.sku)) = 10
          /\ UpdatesFor(v) = {}
          /\ w.sku \in FeedSkus /\ Abs(w.price.val - FeedPrice(w.sku)) = 11
          /\ UpdatesFor(w) # {}

\* C5 (as claimed): a variant whose SKU is missing or empty never appears in
\* the output of compare_prices.
C5_NoEmptySku ==
    Compared =>
        \A v \in CatalogVariants : v.sku \in {Absent, ""} => UpdatesFor(v) = {}

\* C6 (as claimed): with a variant whose SKU is a feed SKU and whose price
\* does not parse, compare_prices still completes and returns the updates of
\* the other variants.
C6_UnparseableSkipped ==
    (pc # "compare_prices" /\ \E v \in CatalogVariants : v.sku \in FeedSkus /\ ~v.price.ok) =>
        /\ Compared
        /\ \A w \in CatalogVariants :
              (w.sku \in FeedSkus /\ w.price.ok) =>
                  Cardinality(UpdatesFor(w)) =
                      IF Abs(w.price.val - FeedPrice(w.sku)) > 10 THEN 1 ELSE 0

\* C7: the mutation requests sent are, in order, one per update of the list
\* compare_prices returned, up to the update in hand, and no request occurs
\* twice; an update is Pending until its request is sent, Sent until the
\* response is classified, then Succeeded or Failed for good.
C7_Sent ==
    /\ Len(Posts) = idx
    /\ \A i \in DOMAIN Posts :
          Posts[i] = UpdateRequest(secrets["SHOPIFY_SHOP"], price_updates[i])
    /\ \A i, j \in DOMAIN Posts : i # j => Posts[i] # Posts[j]
    /\ \A i \in DOMAIN state :
          IF i > idx THEN state[i] = "Pending"
          ELSE IF i = idx /\ pc = "update_shopify_price" THEN state[i] = "Sent"
          ELSE state[i] \in Final
C7_Moves ==
    \A i \in DOMAIN state \cap DOMAIN state' :
        /\ state[i] = "Pending" => state'[i] \in {"Pending", "Sent"}
        /\ state[i] = "Sent" => state'[i] \in {"Sent"} \cup Final
        /\ state[i] \in Final => state'[i] = state[i]
C7_ExactlyOnce == [](C7_Sent) /\ [][C7_Moves]_vars

\* A push of two different updates has ended after exactly two requests,
\* the first update Failed.
C7_Witness ==
    /\ PushEnded
    /\ Len(price_updates) = 2 /\ price_updates[1] # price_updates[2]
    /\ Len(Posts) = 2
    /\ state[1] = "Failed"

\* The response classified last, and what the claim says of it.
Classified == result # NoResult
CarriesUserErrors(r) ==
    /\ ~r.exc /\ r.status = StatusOK /\ r.json
    /\ r.data = "object" /\ r.productSet = "object" /\ r.userErrors = "nonempty"
CleanBody(r) ==
    ~r.exc /\ r.status = StatusOK /\ r.json /\ ~r.errors /\ ~CarriesUserErrors(r)

\* C8 (as claimed): a 200 response with a non-empty userErrors list is
\* Failed with the userErrors list as the reason; Success is reported only
\* for a 200 body without top-level errors and without userErrors.
C8_UserErrorsAreTheReason ==
    Classified =>
        LET r == result.reason.of
        IN  /\ CarriesUserErrors(r) =>
                  ~result.success /\ result.reason.kind = "user_errors"
            /\ result.success => CleanBody(r)

\* C8 (amended): a 200 response with a non-empty userErrors list is Failed;
\* the reason is the userErrors list when the body has no top-level errors
\* key and the whole body when it has one; Success is reported only for a
\* 200 body without top-level errors and without userErrors.
C8_UserErrorsFail ==
    Classified =>
        LET r == result.reason.of
        IN  /\ CarriesUserErrors(r) =>
                  /\ ~result.success
                  /\ result.reason.kind = IF r.errors THEN "response_data" ELSE "user_errors"
            /\ result.success => CleanBody(r)

\* A 200 response with userErrors and no top-level errors was classified
\* Failed, and recorded with the userErrors list as its reason.
C8_Witness ==
    /\ Classified
    /\ CarriesUserErrors(result.reason.of) /\ ~result.reason.of.errors
    /\ ~result.success
    /\ failed_updates # <<>> /\ Last(failed_updates).error.kind = "user_errors"

\* C9 (as claimed): with a required secret missing, or a shop host that
\* includes a protocol prefix, no request is ever issued.
HostsWithProtocol == {"https://shop.myshopify.com"}
ConfigError ==
    \/ \E k \in SecretKeys : secrets[k] = Absent
    \/ secrets["SHOPIFY_SHOP"] \in HostsWithProtocol
C9_NoCallOnConfigError == ConfigError => requests = <<>>

\* C10 (as claimed): when the feed request raised, answered with a status
\* other than 200, or with a body that is not JSON or not a JSON array, the
\* run has ended after that one request: no catalog request, no call of
\* compare_prices, no update mutation.
FeedFailed ==
    /\ feed_response # NoFeedResponse
    /\ \/ feed_response.exc
       \/ feed_response.status # StatusOK
       \/ ~feed_response.json
       \/ feed_response.value.kind # "array"
C10_FeedFailureAborts ==
    FeedFailed =>
        /\ Len(requests) = 1
        /\ pc # "compare_prices" /\ ~CompareCalled

\* str.strip() on the SKUs of the catalogs drawn.
Strip(sku) == IF sku = " A" THEN "A" ELSE sku

\* C11 (as claimed): a variant whose SKU, trimmed of surrounding whitespace,
\* is a feed SKU is looked up under the trimmed SKU: when its price differs
\* from that feed price by more than 0.01 it has an update, under that SKU.
C11_TrimmedLookup ==
    Compared =>
        \A v \in CatalogVariants :
            (/\ v.sku # Absent /\ v.price.ok
             /\ Strip(v.sku) \in FeedSkus
             /\ Abs(v.price.val - FeedPrice(Strip(v.sku))) > 10) =>
                /\ UpdatesFor(v) # {}
                /\ \A i \in UpdatesFor(v) : price_updates[i].sku = Strip(v.sku)

\* C13: every update compare_prices returned carries a sku of the feed, and
\* names a catalog variant that reads that sku (variant.get('sku', '')); its
\* new_price is the feed price of the sku, its current_price that variant's.
C13_UpdateFields ==
    Compared =>
        \A i \in DOMAIN price_updates :
            LET u == price_updates[i]
            IN  /\ u.sku \in FeedSkus
                /\ u.new_price = FeedPrice(u.sku)
                /\ \E v \in CatalogVariants :
                      /\ v.id = u.variant_id
                      /\ Get(v.sku, "") = u.sku
                      /\ u.current_price = v.price.val

\* compare_prices returned two updates, of different SKUs.
C13_Witness ==
    /\ pc = "buttons"
    /\ Len(price_updates) = 2
    /\ price_updates[1].sku # price_updates[2].sku

\* C14: the lookup built from the feed maps every feed SKU to the price of
\* its last entry, and every update carries that price as new_price.
C14_LastWriteWins ==
    /\ \A sku \in FeedSkus : eorder_price_map(FeedItems)[sku] = FeedPrice(sku)
    /\ Compared =>
          \A i \in DOMAIN price_updates :
              price_updates[i].new_price = FeedPrice(price_updates[i].sku)

\* The feed lists a SKU twice, first at the catalog price of a variant and
\* then at another price; the update of that variant carries the second.
C14_Witness ==
    /\ pc = "buttons"
    /\ Len(FeedItems) = 2
    /\ FeedItems[1].sku = FeedItems[2].sku /\ FeedItems[1].price # FeedItems[2].price
    /\ \E i \in DOMAIN price_updates :
          /\ price_updates[i].sku = FeedItems[1].sku
          /\ price_updates[i].current_price = FeedItems[1].price.val
          /\ price_updates[i].new_price = FeedItems[2].price.val

\* ------------------------------------- compare_prices, then the push, on drawn inputs
\* The run from the call of compare_prices on: the feeds of SpecCompare
\* that list one price, 0.011 above one catalog price and 0.001 above the
\* other, and the catalogs of SpecCompare.
ReconcileFeeds == {f \in CompareFeeds : \A i \in DOMAIN f : f[i].price = Num(95011)}

InitReconcile ==
    \E feed \in ReconcileFeeds : \E catalog \in CompareCatalogs : AtCompare(feed, catalog)

NextReconcile ==
    \/ Compare
    \/ \E click \in {"none", "push", "simulate"} : Buttons(click)
    \/ SendUpdate
    \/ \E resp \in MainUpdateResponses : RecvUpdate(resp)
    \/ FinishPush

SpecReconcile == InitReconcile /\ [][NextReconcile]_vars

\* The catalog's variants in iteration order, and the place of a variant id
\* in it.
RECURSIVE Flatten(_)
Flatten(products) ==
    IF products = <<>> THEN <<>> ELSE Flatten(Front(products)) \o Last(products).variants
PlaceOf(variant_id) ==
    CHOOSE k \in DOMAIN Flatten(shopify_products) : Flatten(shopify_products)[k].id = variant_id

\* The updates among the first k of price_updates whose state is st, in
\* list order.
RECURSIVE Pick(_, _)
Pick(k, st) ==
    IF k = 0 THEN <<>>
    ELSE IF state[k] = st THEN Append(Pick(k - 1, st), price_updates[k])
    ELSE Pick(k - 1, st)
Processed == IF pc = "update_shopify_price" THEN idx - 1 ELSE idx

\* C12: the updates compare_prices returned are in catalog iteration order,
\* product by product and variant by variant, at most one per variant; the
\* push sends them in that order and reports successes and failures in it.
C12_CatalogOrder ==
    pc # "compare_prices" =>
        /\ \A i, j \in DOMAIN price_updates :
              i < j => PlaceOf(price_updates[i].variant_id) < PlaceOf(price_updates[j].variant_id)
        /\ \A i \in DOMAIN Posts :
              Posts[i] = UpdateRequest(secrets["SHOPIFY_SHOP"], price_updates[i])
        /\ clicked = "push" =>
              /\ success_updates = Pick(Processed, "Succeeded")
              /\ [i \in DOMAIN failed_updates |-> failed_updates[i].variant_id]
                   = [i \in DOMAIN Pick(Processed, "Failed") |-> Pick(Processed, "Failed")[i].variant_id]

\* A push has ended of two updates, one per product of the catalog, both
\* failed.
C12_Witness ==
    /\ PushEnded
    /\ Len(price_updates) = 2
    /\ price_updates[1].product_id # price_updates[2].product_id
    /\ Len(failed_updates) = 2

\* C15: during a push of N updates, when update k is sent the status line
\* shows k, N and that update's SKU, and the progress is still (k-1)/N; once
\* its outcome is recorded the progress is k/N.  The progress shown never
\* decreases, and it is 1 exactly when all N outcomes are recorded.
InPush == pc \in {"push_loop", "update_shopify_price"}
IsFraction(p, num, den) == p # <<>> /\ p[1] * den = num * p[2]
C15_Shown ==
    /\ pc = "update_shopify_price" =>
          /\ status_text = [kind |-> "updating", idx |-> idx, total |-> Len(price_updates),
                            sku |-> price_updates[idx].sku]
          /\ IsFraction(progress, idx - 1, Len(price_updates))
    /\ pc = "push_loop" => IsFraction(progress, idx, Len(price_updates))
    /\ InPush => (IsFraction(progress, 1, 1) <=> \A i \in DOMAIN state : state[i] \in Final)
C15_Grows ==
    (progress # <<>> /\ progress' # <<>>) =>
        progress'[1] * progress[2] >= progress[1] * progress'[2]
C15_IncrementalProgress == [](C15_Shown) /\ [][C15_Grows]_vars

\* The first of two updates has its outcome recorded: the progress is 1/2.
C15_Witness ==
    /\ pc = "push_loop"
    /\ Len(price_updates) = 2 /\ idx = 1
    /\ progress = <<1, 2>>

\* C16: at every point of a push the processed updates that succeeded are
\* success_updates, those that failed are failed_updates, in list order, so
\* each is in exactly one of them; error_log has one line per failed update,
\* in that order, with its sku, variant id and reason, and nothing else.
LogLine(failure) ==
    "SKU: " \o failure.sku \o ", Variant ID: " \o ToString(failure.variant_id)
        \o ", Error: " \o ToString(failure.error)
C16_Partition ==
    clicked = "push" =>
        /\ success_updates = Pick(Processed, "Succeeded")
        /\ Len(failed_updates) = Len(Pick(Processed, "Failed"))
        /\ \A i \in DOMAIN failed_updates :
              /\ failed_updates[i].sku = Pick(Processed, "Failed")[i].sku
              /\ failed_updates[i].variant_id = Pick(Processed, "Failed")[i].variant_id
        /\ Len(success_updates) + Len(failed_updates) = Processed
        /\ (Processed > 0 /\ ~result.success) => Last(failed_updates).error = result.reason
        /\ error_log = [i \in DOMAIN failed_updates |-> LogLine(failed_updates[i])]

\* A push of two updates has ended: the first succeeded, the second failed
\* and is the one line of the error log.
C16_Witness ==
    /\ PushEnded
    /\ Len(price_updates) = 2
    /\ state[1] = "Succeeded" /\ state[2] = "Failed"
    /\ Len(error_log) = 1

\* C17: a 200 catalog page without a products field is an empty page, not a
\* failure: no error is reported for it, the products of the other pages
\* are kept, and its next link, if it declares one, is followed.
MissingField(resp) == ~PageRequestFailed(resp) /\ ~resp.has_products
C17_MissingFieldIsEmptyPage ==
    \A i \in DOMAIN served :
        MissingField(served[i]) =>
            /\ \A j \in DOMAIN shown : shown[j] # "Error fetching Shopify products"
            /\ all_products = ProductsOf(served)
            /\ NextLink(served[i].links) # "" =>
                  \/ i < Len(served)
                  \/ pc = "get_shopify_products" /\ next_page_url = NextLink(served[i].links)

\* C18: get_shopify_products stops at the first page whose products list is
\* empty, even when that page declares a next link: no page is requested
\* after an empty one.
EmptyPage(resp) == ~PageFails(resp) /\ resp.products = <<>>
C18_StopsAtEmptyPage ==
    \A i \in DOMAIN served : EmptyPage(served[i]) => i = Len(served)

\* The part of C19 about the buttons and the diff: a mutation request is
\* sent only in a run where main's two guards passed, compare_prices
\* returned a non-empty list and "Push Price Updates" was pressed; a run with
\* "Simulate Price Update", with no button pressed or with an empty diff
\* sends none.
OnlyOnPush ==
    /\ Posts # <<>> =>
          /\ clicked = "push"
          /\ Truthy(eorder_prices)
          /\ shopify_products # <<>>
          /\ price_updates # <<>>
          /\ \E i \in DOMAIN shown : shown[i] = "Potential Price Updates"
    /\ clicked \in {"none", "simulate"} => Posts = <<>>
    /\ (Compared /\ price_updates = <<>>) => Posts = <<>> /\ pc = "returned"
    /\ pc \in {"push_loop", "update_shopify_price"} => clicked = "push"

\* The simulation has listed two updates and the run has ended without a
\* mutation request.
SimulatedOnly ==
    /\ clicked = "simulate" /\ pc = "returned"
    /\ Len(price_updates) = 2
    /\ Last(shown) = "Would update SKU " \o price_updates[2].sku
    /\ Posts = <<>>

\* C19: no mutation is sent without an explicit push, and one is sent only
\* after both fetches succeeded: the feed answered 200 with JSON and no
\* catalog page request failed.
BothFetchesSucceeded ==
    /\ ~feed_response.exc /\ feed_response.status = StatusOK /\ feed_response.json
    /\ \A i \in DOMAIN served : ~PageRequestFailed(served[i])
C19_NoMutationWithoutPush ==
    /\ OnlyOnPush
    /\ Posts # <<>> => BothFetchesSucceeded

\* C20: a feed that answers 200 with an empty array ends the run with the
\* feed-failure error after that one request; a catalog whose pages all
\* answer 200 with products lists that are all empty ends the run with the
\* catalog-failure error before compare_prices; no update is sent in either.
EmptyFeed == feed_response = FeedResponse(StatusOK, TRUE, JsonArray(<<>>))
EmptyCatalog ==
    /\ served # <<>>
    /\ \A i \in DOMAIN served : EmptyPage(served[i])
    /\ pc \notin {"get_shopify_products", "get_shopify_products_return"}
C20_EmptyIsFailure ==
    /\ EmptyFeed =>
          /\ pc = "returned"
          /\ Last(shown) = "Could not fetch prices from eOrder API."
          /\ Len(requests) = 1
          /\ Posts = <<>>
    /\ EmptyCatalog =>
          /\ pc = "returned"
          /\ Last(shown) = "Could not fetch Shopify products."
          /\ ~CompareCalled
          /\ Posts = <<>>

\* The feed answered 200 with [] and main has returned.
C20_Witness ==
    /\ EmptyFeed
    /\ pc = "returned"
    /\ eorder_prices = JsonArray(<<>>)

\* The same for a catalog of two empty pages.
C20_EmptyCatalogReached == EmptyCatalog /\ Len(served) = 2

====
